---- MODULE Spec2Model ----
(***************************************************************************)
(* Model of scripts/mock-ofbiz.py: the MockOFBizHandler request handler    *)
(* (routing, Basic-auth token issuance, user lookup, user and tenant       *)
(* creation, list and health) over the class-level USERS registry.         *)
(*                                                                         *)
(* The server is http.server.HTTPServer, which serves one request at a     *)
(* time: each action below is the complete handling of one request.        *)
(*                                                                         *)
(* Text is modelled as sequences of one-character strings over printable   *)
(* ASCII, so that split, concatenation, escaping and base64 are computed,  *)
(* plus one character that no UTF-8 stream encodes (a lone surrogate).     *)
(* Python values (JSON values, None) are tagged records.  The log written  *)
(* by print is not part of the state; a print that cannot encode its text  *)
(* raises, and the handler ends there.                                     *)
(***************************************************************************)
EXTENDS Integers, Sequences, FiniteSets, TLC

(***************************************************************************)
(* Bounds of the model.                                                    *)
(***************************************************************************)
\* At most this many users are created at run time (the registry holds the
\* two seed users plus at most MaxCreated records).
MaxCreated == 2

(***************************************************************************)
(* Characters and bytes.                                                   *)
(***************************************************************************)
\* The printable ASCII characters, code 32 (space) to 126 (~), in code order
\* (code 96, the grave accent, cannot be written in a string and is named).
Printable ==
  <<
    " ", "!", "\"", "#", "$", "%", "&", "'", "(", ")", "*", "+", ",", "-", ".", "/",
    "0", "1", "2", "3", "4", "5", "6", "7", "8", "9", ":", ";", "<", "=", ">", "?",
    "@", "A", "B", "C", "D", "E", "F", "G", "H", "I", "J", "K", "L", "M", "N", "O",
    "P", "Q", "R", "S", "T", "U", "V", "W", "X", "Y", "Z", "[", "\\", "]", "^", "_",
    "GRAVE", "a", "b", "c", "d", "e", "f", "g", "h", "i", "j", "k", "l", "m", "n", "o",
    "p", "q", "r", "s", "t", "u", "v", "w", "x", "y", "z", "{", "|", "}", "~"
  >>

\* The character U+D800, a surrogate without its pair: json.loads yields it
\* for the escape \ud800 in a string, and str.encode('utf-8') rejects it.
Surrogate == "U+D800"

\* ord(c) and chr(b) on printable ASCII.
OrdTable ==
  [c \in {Printable[i] : i \in 1..Len(Printable)} |->
     31 + (CHOOSE i \in 1..Len(Printable) : Printable[i] = c)]

Ord(c) == OrdTable[c]

Chr(b) == Printable[b - 31]

\* The result of an operation that may raise: Raise, or Ok(v).
Raise == [ok |-> FALSE]

Ok(v) == [ok |-> TRUE, v |-> v]

\* str.encode('utf-8') / str.encode('ascii') on printable ASCII text.
Utf8Encode(s) == [i \in 1..Len(s) |-> Ord(s[i])]

\* bytes.decode('utf-8'): the bytes F8..FF occur in no UTF-8 sequence and raise
\* UnicodeDecodeError; printable ASCII bytes decode to themselves.
Utf8Decode(bs) ==
  IF \E i \in 1..Len(bs) : bs[i] >= 248
  THEN Raise
  ELSE Ok([i \in 1..Len(bs) |-> Chr(bs[i])])

(***************************************************************************)
(* base64 (RFC 4648 alphabet), as base64.b64encode and the lenient         *)
(* base64.b64decode (binascii.a2b_base64 with strict_mode off).            *)
(***************************************************************************)
B64 ==
  <<
    "A", "B", "C", "D", "E", "F", "G", "H", "I", "J", "K", "L", "M", "N", "O", "P",
    "Q", "R", "S", "T", "U", "V", "W", "X", "Y", "Z", "a", "b", "c", "d", "e", "f",
    "g", "h", "i", "j", "k", "l", "m", "n", "o", "p", "q", "r", "s", "t", "u", "v",
    "w", "x", "y", "z", "0", "1", "2", "3", "4", "5", "6", "7", "8", "9", "+", "/"
  >>

\* The 6-bit value of an alphabet character; 64 for any other character.
B64Table ==
  [c \in {B64[i] : i \in 1..Len(B64)} |-> (CHOOSE i \in 1..Len(B64) : B64[i] = c) - 1]

B64Val(c) == IF c \in DOMAIN B64Table THEN B64Table[c] ELSE 64

B64Sym(v) == B64[v + 1]

\* base64.b64encode: three bytes give four characters, a last group of one or
\* two bytes is padded with '='.
b64encode(bs) ==
  LET byte(i) == IF i <= Len(bs) THEN bs[i] ELSE 0
      sym(k) ==
        LET g == 3 * ((k - 1) \div 4)
            j == (k - 1) % 4
        IN IF j = 0 THEN B64Sym(byte(g + 1) \div 4)
           ELSE IF j = 1 THEN B64Sym((byte(g + 1) % 4) * 16 + (byte(g + 2) \div 16))
           ELSE IF j = 2 THEN
             (IF g + 2 > Len(bs) THEN "="
              ELSE B64Sym((byte(g + 2) % 16) * 4 + (byte(g + 3) \div 64)))
           ELSE (IF g + 3 > Len(bs) THEN "=" ELSE B64Sym(byte(g + 3) % 64))
  IN [k \in 1..(4 * ((Len(bs) + 2) \div 3)) |-> sym(k)]

IsB64Char(c) == c \in DOMAIN B64Table

IsB64OrPad(c) == c = "=" \/ IsB64Char(c)

\* The number of data characters of the open quad before position i of body.
a2b_quad_pos(body, i) == Len(SelectSeq(SubSeq(body, 1, i - 1), IsB64Char)) % 4

\* The '=' at position i of body ends the data.
a2b_ends(body, i) ==
  /\ body[i] = "="
  /\ \/ a2b_quad_pos(body, i) = 3
     \/ a2b_quad_pos(body, i) = 2 /\ i > 1 /\ body[i - 1] = "="

\* The position of the '=' that ends the data, Len(body) + 1 when none does.
a2b_stop(body) ==
  IF \E i \in 1..Len(body) : a2b_ends(body, i)
  THEN CHOOSE i \in 1..Len(body) :
         a2b_ends(body, i) /\ \A j \in 1..(i - 1) : ~a2b_ends(body, j)
  ELSE Len(body) + 1

\* Byte k of the decoded data characters.
a2b_byte(data, k) ==
  LET g == 4 * ((k - 1) \div 3)
      j == (k - 1) % 3
  IN IF j = 0 THEN B64Val(data[g + 1]) * 4 + (B64Val(data[g + 2]) \div 16)
     ELSE IF j = 1 THEN (B64Val(data[g + 2]) % 16) * 16 + (B64Val(data[g + 3]) \div 4)
     ELSE (B64Val(data[g + 3]) % 4) * 64 + B64Val(data[g + 4])

\* The bytes of the data characters; done tells that a '=' ended the data.
a2b_bytes(data, done) ==
  IF ~done /\ Len(data) % 4 # 0 THEN Raise
  ELSE Ok([k \in 1..(3 * (Len(data) \div 4)
                      + (IF Len(data) % 4 = 0 THEN 0 ELSE (Len(data) % 4) - 1)) |->
             a2b_byte(data, k)])

a2b_upto(body, stop) ==
  a2b_bytes(SelectSeq(SubSeq(body, 1, stop - 1), IsB64Char), stop <= Len(body))

a2b_base64(body) == a2b_upto(body, a2b_stop(body))

\* binascii.a2b_base64 with strict_mode off.  Characters outside the alphabet
\* are skipped.  A '=' ends the data when it completes a quad: after three
\* data characters of the quad, or after two and another '='; any other '=' is
\* passed over.  Data that ends inside a quad raises binascii.Error.
b64decode(s) == a2b_base64(SelectSeq(s, IsB64OrPad))

(***************************************************************************)
(* Python values: None, str, int, list and dict (the values json.loads     *)
(* yields, without bool and float).                                        *)
(***************************************************************************)
None == [t |-> "null"]

Str(s) == [t |-> "str", s |-> s]

Num(n) == [t |-> "num", n |-> n]

List(items) == [t |-> "list", items |-> items]

Dict(f) == [t |-> "dict", f |-> f]

EmptyDict == Dict([k \in {} |-> None])

\* bool(v): None, '', 0, [] and {} are false.
Truthy(v) ==
  CASE v.t = "null" -> FALSE
    [] v.t = "str" -> Len(v.s) > 0
    [] v.t = "num" -> v.n # 0
    [] v.t = "list" -> Len(v.items) > 0
    [] v.t = "dict" -> DOMAIN v.f # {}

\* A faulty default: b is taken only when a is None.
Or_when_none(a, b) == IF a = None THEN b ELSE a

\* a or b
Or(a, b) == IF Truthy(a) THEN a ELSE b

\* hash(v) raises TypeError for a list or a dict.
Hashable(v) == v.t \notin {"list", "dict"}

\* dict.get(key, default)
Get(d, key, default) == IF key \in DOMAIN d.f THEN d.f[key] ELSE default

RECURSIVE Digits(_)
Digits(n) ==
  IF n < 10 THEN <<Chr(48 + n)>> ELSE Digits(n \div 10) \o <<Chr(48 + (n % 10))>>

\* repr of a list of plain strings: ['a', 'b']
RECURSIVE ReprItems(_)
ReprItems(items) ==
  IF Len(items) = 0 THEN <<>>
  ELSE <<"'">> \o Head(items).s \o <<"'">>
       \o (IF Len(items) > 1 THEN <<",", " ">> ELSE <<>>)
       \o ReprItems(Tail(items))

\* str(v), as an f-string formats v.
PyStr(v) ==
  CASE v.t = "null" -> <<"N", "o", "n", "e">>
    [] v.t = "str" -> v.s
    [] v.t = "num" -> Digits(v.n)
    [] v.t = "list" -> <<"[">> \o ReprItems(v.items) \o <<"]">>

(***************************************************************************)
(* The registry: MockOFBizHandler.USERS.                                   *)
(***************************************************************************)
admin == <<"a", "d", "m", "i", "n">>

demo == <<"d", "e", "m", "o">>

SeedUsers ==
  LET adminRec ==
        [password |-> Str(<<"o", "f", "b", "i", "z">>),
         userLoginId |-> Str(admin),
         firstName |-> Str(<<"T", "H", "E">>),
         lastName |-> Str(<<"A", "D", "M", "I", "N", "I", "S", "T", "R", "A", "T", "O", "R">>),
         email |-> Str(<<"o", "f", "b", "i", "z", "t", "e", "s", "t", "@",
                         "e", "x", "a", "m", "p", "l", "e", ".", "c", "o", "m">>),
         tenantId |-> Str(<<"d", "e", "f", "a", "u", "l", "t">>),
         enabled |-> TRUE]
      demoRec ==
        [password |-> Str(demo),
         userLoginId |-> Str(demo),
         firstName |-> Str(<<"D", "e", "m", "o">>),
         lastName |-> Str(<<"U", "s", "e", "r">>),
         email |-> Str(<<"d", "e", "m", "o", "@",
                         "e", "x", "a", "m", "p", "l", "e", ".", "c", "o", "m">>),
         tenantId |-> Str(<<"c", "o", "m", "p", "a", "n", "y">>),
         enabled |-> TRUE]
  IN <<[key |-> Str(admin), value |-> adminRec], [key |-> Str(demo), value |-> demoRec]>>

\* A Python dict keeps its items in insertion order: the registry is the
\* sequence of its (key, value) items.
Keys(users) == {users[i].key : i \in 1..Len(users)}

\* key in users
Contains(users, key) == key \in Keys(users)

\* users[key], for a key of users
Lookup(users, key) == users[CHOOSE i \in 1..Len(users) : users[i].key = key].value

\* A faulty insert: the record is stored under its email address.
Insert_under_email(users, key, value) ==
  Append(users, [key |-> value.email, value |-> value])

\* A faulty insert: the registry is replaced by the new item.
Insert_replacing(users, key, value) == <<[key |-> key, value |-> value]>>

\* users[key] = value: a new key is added after the others, the value of a
\* key that is in users is replaced.
Insert(users, key, value) ==
  IF Contains(users, key)
  THEN [i \in 1..Len(users) |->
          IF users[i].key = key THEN [key |-> key, value |-> value] ELSE users[i]]
  ELSE Append(users, [key |-> key, value |-> value])

(***************************************************************************)
(* Responses.                                                              *)
(***************************************************************************)
\* A faulty response: the CORS headers are sent with a success only.
send_response_cors_on_success(status_code, data) ==
  [status |-> status_code,
   headers |-> IF status_code < 400
               THEN [ContentType |-> "application/json",
                     AccessControlAllowOrigin |-> "*",
                     AccessControlAllowMethods |-> "GET, POST, OPTIONS",
                     AccessControlAllowHeaders |-> "Content-Type, Authorization"]
               ELSE [ContentType |-> "application/json"],
   body |-> [kind |-> "json", data |-> data]]

\* _send_response(status_code, data): one JSON response with the CORS headers.
send_response(status_code, data) ==
  [status |-> status_code,
   headers |-> [ContentType |-> "application/json",
                AccessControlAllowOrigin |-> "*",
                AccessControlAllowMethods |-> "GET, POST, OPTIONS",
                AccessControlAllowHeaders |-> "Content-Type, Authorization"],
   body |-> [kind |-> "json", data |-> data]]

\* BaseHTTPRequestHandler.send_error(501): the library's HTML error page, sent
\* for a method the handler class defines no do_<METHOD> for.
send_error(code, command) ==
  [status |-> code,
   headers |-> [ContentType |-> "text/html;charset=utf-8", Connection |-> "close"],
   body |-> [kind |-> "html", text |-> <<"Unsupported method", command>>]]

\* What handling a request leaves behind: the registry and the responses sent
\* (none when the handler raised before responding).
Outcome(users, sent) == [USERS |-> users, sent |-> sent]

Respond(users, status_code, data) == Outcome(users, <<send_response(status_code, data)>>)

\* The handler raised: socketserver logs the exception and closes the
\* connection without a response.
Raised(users) == Outcome(users, <<>>)

(***************************************************************************)
(* Request parsing.                                                        *)
(***************************************************************************)
BasicPrefix == <<"B", "a", "s", "i", "c", " ">>

HasColon(text) == \E i \in 1..Len(text) : text[i] = ":"

LastColon(text) ==
  CHOOSE i \in 1..Len(text) : text[i] = ":" /\ \A j \in (i + 1)..Len(text) : text[j] # ":"

FirstColon(text) ==
  CHOOSE i \in 1..Len(text) : text[i] = ":" /\ \A j \in 1..(i - 1) : text[j] # ":"

NoCredentials == [username |-> None, password |-> None]

\* A faulty split: at the last colon, as decoded.rsplit(':', 1).
split_credentials_at_last(decoded) ==
  IF ~decoded.ok THEN NoCredentials
  ELSE IF ~HasColon(decoded.v) THEN NoCredentials
  ELSE [username |-> Str(SubSeq(decoded.v, 1, LastColon(decoded.v) - 1)),
        password |-> Str(SubSeq(decoded.v, LastColon(decoded.v) + 1, Len(decoded.v)))]

\* decoded.split(':', 1) of the decoded header text.
split_credentials(decoded) ==
  IF ~decoded.ok THEN NoCredentials
  ELSE IF ~HasColon(decoded.v) THEN NoCredentials
  ELSE [username |-> Str(SubSeq(decoded.v, 1, FirstColon(decoded.v) - 1)),
        password |-> Str(SubSeq(decoded.v, FirstColon(decoded.v) + 1, Len(decoded.v)))]

\* .decode('utf-8') of the decoded bytes, then the split; any exception of
\* the try block gives (None, None).
decode_credentials(raw) ==
  IF ~raw.ok THEN NoCredentials ELSE split_credentials(Utf8Decode(raw.v))

\* A faulty parse: the scheme is not compared, any six characters pass for it.
get_basic_auth_any_scheme(auth_header) ==
  IF Len(auth_header) >= 6
  THEN decode_credentials(b64decode(SubSeq(auth_header, 7, Len(auth_header))))
  ELSE NoCredentials

\* _get_basic_auth: (username, password) of the Authorization header, or
\* (None, None).  auth_header is '' when the request carries none.
get_basic_auth(auth_header) ==
  IF Len(auth_header) >= 6 /\ SubSeq(auth_header, 1, 6) = BasicPrefix
  THEN decode_credentials(b64decode(SubSeq(auth_header, 7, Len(auth_header))))
  ELSE NoCredentials

\* A faulty parse: None is returned when the body cannot be read as JSON.
get_post_data_or_none(body) == IF body.kind = "json" THEN body.v ELSE None

\* _get_post_data: the JSON value of the body; {} when Content-Length is
\* missing or the body does not parse.
get_post_data(body) == IF body.kind = "json" THEN body.v ELSE EmptyDict

(***************************************************************************)
(* Handlers.                                                               *)
(***************************************************************************)
\* A faulty copy: the password is left in.
StripPassword_kept(user) == user

\* user.copy() without its 'password'
StripPassword(user) == [k \in (DOMAIN user) \ {"password"} |-> user[k]]

\* _handle_list_users
handle_list_users(users) ==
  LET users_data == [i \in 1..Len(users) |-> StripPassword(users[i].value)]
  IN Respond(users, 200,
             [success |-> TRUE, total |-> Len(users_data), users |-> users_data])

\* The clock reading str(int(time.time() * 1000)); the model has one.
time_ms == <<"1", "7", "0", "0", "0", "0", "0", "0", "0", "0", "0", "0", "0">>

\* The 'data' of the 201 response of _handle_create_user.
created_data(new_user) ==
  [userLoginId |-> new_user.userLoginId,
   firstName |-> new_user.firstName,
   lastName |-> new_user.lastName,
   email |-> new_user.email,
   tenantId |-> new_user.tenantId]

\* A faulty check: no user is ever found to exist.
user_exists_never(users, username) == FALSE

\* A faulty check: only the seed users are looked at.
user_exists_in_seed(users, username) == Contains(SeedUsers, username)

\* if username in self.USERS
user_exists(users, username) == Contains(users, username)

\* print(text) to the log: sys.stdout is a UTF-8 stream (the handlers print
\* emoji), and UTF-8 does not encode a lone surrogate: UnicodeEncodeError.
print_raises(text) == \E i \in 1..Len(text) : text[i] = Surrogate

\* _handle_create_user
handle_create_user(users, body) ==
  LET post_data == get_post_data(body)
      username == Get(post_data, "userLoginId", None)
      first_name == Get(post_data, "firstName", None)
      last_name == Get(post_data, "lastName", None)
      email == Get(post_data, "emailAddress", None)
      password == Get(post_data, "userPassword",
                      Str(<<"d", "e", "f", "a", "u", "l", "t", "P", "a", "s", "s",
                            "w", "o", "r", "d", "1", "2", "3">>))
      tenant_id == Get(post_data, "tenantId", Str(<<"d", "e", "f", "a", "u", "l", "t">>))
      new_user ==
        [password |-> password,
         userLoginId |-> username,
         firstName |-> Or(first_name, username),
         lastName |-> Or(last_name, Str(<<"U", "s", "e", "r">>)),
         email |-> Or(email, Str(PyStr(username) \o <<"@", "e", "x", "a", "m", "p", "l",
                                                        "e", ".", "c", "o", "m">>)),
         tenantId |-> tenant_id,
         enabled |-> TRUE,
         createdByKeycloak |-> TRUE,
         createdAt |-> Str(time_ms)]
  IN IF post_data.t # "dict" THEN Raised(users)
     ELSE IF ~Truthy(username) THEN
       Respond(users, 400, [error |-> "Bad Request",
                            message |-> <<"userLoginId is required">>])
     ELSE IF ~Hashable(username) THEN Raised(users)
     ELSE IF user_exists(users, username) THEN
       (IF print_raises(PyStr(username)) THEN Raised(users)
        ELSE Respond(users, 409, [error |-> "Conflict",
                                  message |-> <<"User ", username, " already exists">>]))
     ELSE IF print_raises(PyStr(username)) THEN Raised(Insert(users, username, new_user))
     ELSE
       Respond(Insert(users, username, new_user), 201,
               [success |-> TRUE,
                message |-> <<"User ", username, " created successfully">>,
                data |-> created_data(new_user)])

\* _handle_create_tenant
handle_create_tenant(users, body) ==
  LET post_data == get_post_data(body)
      tenant_id == Get(post_data, "partyId", None)
      tenant_name == Get(post_data, "groupName", None)
  IN IF post_data.t # "dict" THEN Raised(users)
     ELSE IF ~Truthy(tenant_id) THEN
       Respond(users, 400, [error |-> "Bad Request",
                            message |-> <<"partyId is required">>])
     ELSE IF print_raises(PyStr(tenant_id)) \/ print_raises(PyStr(tenant_name))
       THEN Raised(users)
     ELSE
       Respond(users, 201,
               [success |-> TRUE,
                message |-> <<"Tenant ", tenant_id, " created successfully">>,
                data |-> [partyId |-> tenant_id,
                          groupName |-> Or(tenant_name,
                                           Str(PyStr(tenant_id)
                                               \o <<" ", "O", "r", "g", "a", "n", "i",
                                                    "z", "a", "t", "i", "o", "n">>)),
                          partyTypeId |-> "PARTY_GROUP"]])

\* A faulty encoder: nothing is escaped.
json_escape_nothing(s) == s

\* json.dumps of a str: the quote and the backslash are escaped.
RECURSIVE json_escape(_)
json_escape(s) ==
  IF Len(s) = 0 THEN <<>>
  ELSE (IF Head(s) \in {"\"", "\\"} THEN <<"\\", Head(s)>> ELSE <<Head(s)>>)
       \o json_escape(Tail(s))

\* json.dumps({'userLoginId': username, 'exp': 9999999999})
json_dumps_token(username) ==
  <<"{", "\"", "u", "s", "e", "r", "L", "o", "g", "i", "n", "I", "d", "\"", ":", " ", "\"">>
  \o json_escape(username.s)
  \o <<"\"", ",", " ", "\"", "e", "x", "p", "\"", ":", " ",
       "9", "9", "9", "9", "9", "9", "9", "9", "9", "9", "}">>

\* A faulty rejection: an unknown user is told so.
reject_credentials_disclosing(users, username) ==
  IF Contains(users, username)
  THEN Respond(users, 401, [error |-> "Invalid credentials",
                            message |-> <<"Username or password incorrect">>])
  ELSE Respond(users, 401, [error |-> "Invalid credentials",
                            message |-> <<"User ", username, " not found">>])

\* The 401 of _handle_auth_token for credentials that do not match an enabled
\* user: the same whatever the username.
reject_credentials(users, username) ==
  Respond(users, 401, [error |-> "Invalid credentials",
                       message |-> <<"Username or password incorrect">>])

\* _handle_auth_token from line 225 on, cred being the parsed credentials.
authenticate(users, cred) ==
  IF ~Truthy(cred.username) \/ ~Truthy(cred.password) THEN
    Respond(users, 401, [error |-> "Unauthorized",
                         message |-> <<"Basic authentication required">>])
  ELSE IF \/ ~Contains(users, cred.username)
          \/ Lookup(users, cred.username).password # cred.password
          \/ ~Lookup(users, cred.username).enabled THEN
    reject_credentials(users, cred.username)
  ELSE
    Respond(users, 200,
            [access_token |-> Str(b64encode(Utf8Encode(json_dumps_token(cred.username)))),
             token_type |-> "Bearer",
             expires_in |-> 3600])

\* _handle_auth_token
handle_auth_token(users, auth_header) == authenticate(users, get_basic_auth(auth_header))

\* A faulty response: the names are swapped.
info_data_swapped(user) ==
  [userLoginId |-> user.userLoginId,
   firstName |-> user.lastName,
   lastName |-> user.firstName,
   email |-> user.email,
   tenantId |-> user.tenantId]

\* The 'data' of the 200 response of _handle_get_user_info.
info_data(user) ==
  [userLoginId |-> user.userLoginId,
   firstName |-> user.firstName,
   lastName |-> user.lastName,
   email |-> user.email,
   tenantId |-> user.tenantId]

\* _handle_get_user_info
handle_get_user_info(users, body) ==
  LET post_data == get_post_data(body)
      username == Get(post_data, "userLoginId", None)
  IN IF post_data.t # "dict" THEN Raised(users)
     ELSE IF ~Truthy(username) THEN
       Respond(users, 400, [error |-> "Bad Request",
                            message |-> <<"userLoginId parameter required">>])
     ELSE IF ~Hashable(username) THEN Raised(users)
     ELSE IF ~Contains(users, username) \/ ~Lookup(users, username).enabled THEN
       Respond(users, 404, [error |-> "User not found",
                            message |-> <<"User ", username, " not found or disabled">>])
     ELSE
       Respond(users, 200, [success |-> TRUE,
                            data |-> info_data(Lookup(users, username))])

(***************************************************************************)
(* Routing.                                                                *)
(***************************************************************************)
\* urlparse(self.path).path: the request target without its query.
urlparse_path(target) == target.path

\* do_OPTIONS
do_OPTIONS(users, req) == Respond(users, 200, [k \in {} |-> None])

\* The else branches of do_GET and of do_POST.
get_not_found(users, path) ==
  Respond(users, 404, [error |-> "Not Found",
                       message |-> <<"GET endpoint ", path, " not found">>])

\* A faulty else branch: the wrong status.
post_not_found_as_bad_request(users, path) ==
  Respond(users, 400, [error |-> "Bad Request",
                       message |-> <<"Endpoint ", path, " not found">>])

post_not_found(users, path) ==
  Respond(users, 404, [error |-> "Not Found",
                       message |-> <<"Endpoint ", path, " not found">>])

\* do_GET
do_GET(users, req) ==
  LET path == urlparse_path(req.target)
  IN IF path \in {"/users", "/rest/users"} THEN handle_list_users(users)
     ELSE IF path \in {"/health", "/rest/health"} THEN
       Respond(users, 200, [status |-> "OK", message |-> <<"Mock OFBiz is running">>])
     ELSE get_not_found(users, path)

\* do_POST
do_POST(users, req) ==
  LET path == urlparse_path(req.target)
  IN IF path = "/rest/auth/token" THEN handle_auth_token(users, req.auth)
     ELSE IF path = "/rest/services/getUserInfo" THEN handle_get_user_info(users, req.body)
     ELSE IF path = "/rest/services/createUser" THEN handle_create_user(users, req.body)
     ELSE IF path = "/rest/services/createPartyGroup" THEN
       handle_create_tenant(users, req.body)
     ELSE post_not_found(users, path)

\* The methods MockOFBizHandler defines a do_<METHOD> for.
HandledMethods == {"GET", "POST", "OPTIONS"}

\* BaseHTTPRequestHandler.handle_one_request: do_<METHOD> when the class has
\* it, else send_error(501).
handle_one_request(users, req) ==
  IF req.method = "GET" THEN do_GET(users, req)
  ELSE IF req.method = "POST" THEN do_POST(users, req)
  ELSE IF req.method = "OPTIONS" THEN do_OPTIONS(users, req)
  ELSE Outcome(users, <<send_error(501, req.method)>>)

(***************************************************************************)
(* The requests of the model.                                              *)
(***************************************************************************)
newuser == <<"n", "e", "w", "u", "s", "e", "r">>

\* A login id that json.dumps must escape.
quoted == <<"q", "\"", "\\">>

\* A login id that holds the Basic-auth separator.
colonid == <<"a", ":", "b">>

ghost == <<"g", "h", "o", "s", "t">>

\* A login id that the log cannot print: the JSON string "\ud800".
unprintable == <<Surrogate>>

ofbiz == <<"o", "f", "b", "i", "z">>

pw == <<"p", "w">>

\* A password that holds the Basic-auth separator.
colonpw == <<"o", "f", ":", "b", "i", "z">>

wrong == <<"w", "r", "o", "n", "g">>

defaultPassword123 == <<"d", "e", "f", "a", "u", "l", "t", "P", "a", "s", "s", "w", "o", "r", "d", "1", "2", "3">>

JsonBody(v) == [kind |-> "json", v |-> v]

\* A body that json.loads rejects, and a request without Content-Length.
GarbageBody == [kind |-> "garbage"]

NoLengthBody == [kind |-> "nolength"]

OnlyId(id) == Dict([userLoginId |-> id])

AllFields(id) ==
  Dict([userLoginId |-> id,
        firstName |-> Str(<<"A", "l">>),
        lastName |-> Str(<<"L", "e", "e">>),
        emailAddress |-> Str(<<"a", "l", "@", "x", ".", "o", "r", "g">>),
        userPassword |-> Str(pw),
        tenantId |-> Str(<<"a", "c", "m", "e">>)])

EmptyFields(id) ==
  Dict([userLoginId |-> id,
        firstName |-> Str(<<>>),
        lastName |-> Str(<<>>),
        emailAddress |-> Str(<<>>),
        userPassword |-> Str(<<>>),
        tenantId |-> None])

\* JSON values that are not objects.
NonObjects == {List(<<Str(<<"x">>)>>), Str(newuser), Num(7), None}

\* Values of userLoginId / partyId that are no usable id.
BadIds == {Str(<<>>), None, Num(0), List(<<>>), List(<<Str(<<"x">>)>>)}

MalformedBodies ==
  {GarbageBody, NoLengthBody, JsonBody(EmptyDict)}
  \cup {JsonBody(v) : v \in NonObjects}

CreateBodies ==
  {JsonBody(OnlyId(Str(newuser))), JsonBody(AllFields(Str(newuser))),
   JsonBody(EmptyFields(Str(newuser))), JsonBody(AllFields(Str(quoted))),
   JsonBody(AllFields(Str(colonid))), JsonBody(OnlyId(Num(7))),
   JsonBody(AllFields(Str(admin))), JsonBody(OnlyId(Str(demo))),
   JsonBody(OnlyId(Str(unprintable))),
   JsonBody(Dict([userLoginId |-> Str(newuser), userPassword |-> Str(colonpw)])),
   JsonBody(Dict([userLoginId |-> Str(newuser), userPassword |-> Str(unprintable)]))}
  \cup {JsonBody(OnlyId(id)) : id \in BadIds}
  \cup MalformedBodies

InfoBodies ==
  {JsonBody(OnlyId(id)) :
     id \in {Str(admin), Str(demo), Str(newuser), Str(quoted), Str(colonid), Num(7),
             Str(<<"7">>), Str(ghost), Str(unprintable)} \cup BadIds}
  \cup MalformedBodies

TenantBodies ==
  {JsonBody(Dict([partyId |-> Str(<<"a", "c", "m", "e">>)])),
   JsonBody(Dict([partyId |-> Str(<<"a", "c", "m", "e">>),
                  groupName |-> Str(<<"A", "c", "m", "e", " ", "I", "n", "c">>)])),
   JsonBody(Dict([partyId |-> Str(<<"a", "c", "m", "e">>), groupName |-> Str(<<>>)])),
   JsonBody(Dict([partyId |-> Num(7)])),
   JsonBody(Dict([partyId |-> Str(unprintable)])),
   JsonBody(Dict([partyId |-> Str(<<"a", "c", "m", "e">>), groupName |-> Str(unprintable)])),
   JsonBody(Dict([groupName |-> Str(<<"A", "c", "m", "e", " ", "I", "n", "c">>)]))}
  \cup {JsonBody(Dict([partyId |-> id])) : id \in BadIds}
  \cup MalformedBodies

\* The Authorization header a client builds for (username, password).
BasicHeader(username, password) ==
  BasicPrefix \o b64encode(Utf8Encode(username \o <<":">> \o password))

CredUsers == {admin, demo, newuser, quoted, colonid, <<"7">>, ghost, <<>>}

CredPasswords == {ofbiz, pw, defaultPassword123, wrong, <<>>, colonpw}

NoHeader == <<>>

\* Headers that are not base64(username:password): another scheme, the scheme
\* in lower case, no colon, bad padding, bytes that are not UTF-8; and a
\* header with a character outside the alphabet, which b64decode skips.
RawHeaders ==
  {NoHeader,
   <<"B", "e", "a", "r", "e", "r", " ", "a", "b", "c">>,
   <<"b", "a", "s", "i", "c", " ", "Y", "W", "R", "t", "a", "W", "4", "6", "b", "2", "Z", "i", "a", "X", "o", "=">>,
   BasicPrefix \o b64encode(Utf8Encode(admin)),
   BasicPrefix \o <<"Y", "W", "R", "t", "a", "W", "4", "6", "b", "2", "Z", "i", "a", "X", "o">>,
   BasicPrefix \o <<"/", "w", "=", "=">>,
   BasicPrefix \o <<"Y", "W", "R", "t", "a", "W", "4", "6", "!", "b", "2", "Z", "i", "a", "X", "o", "=">>}

AuthHeaders ==
  {BasicHeader(u, p) : u \in CredUsers, p \in CredPasswords}
  \cup {BasicHeader(demo, demo)}
  \cup RawHeaders

Methods == {"GET", "POST", "OPTIONS", "PUT", "DELETE"}

Paths ==
  {"/health", "/rest/health", "/users", "/rest/users", "/rest/auth/token",
   "/rest/services/getUserInfo", "/rest/services/createUser",
   "/rest/services/createPartyGroup", "/", "/Health", "/rest/services/deleteUser"}

Targets ==
  {[path |-> p, query |-> ""] : p \in Paths}
  \cup {[path |-> "/health", query |-> "x=1"], [path |-> "/rest/users", query |-> "x=1"]}

Request(method, target, auth, body) ==
  [method |-> method, target |-> target, auth |-> auth, body |-> body]

Target(path) == [path |-> path, query |-> ""]

Requests ==
  {Request(m, t, NoHeader, NoLengthBody) : m \in Methods, t \in Targets}
  \cup {Request("POST", Target("/rest/auth/token"), a, NoLengthBody) : a \in AuthHeaders}
  \cup {Request("POST", Target("/rest/services/getUserInfo"), NoHeader, b) : b \in InfoBodies}
  \cup {Request("POST", Target("/rest/services/createUser"), NoHeader, b) : b \in CreateBodies}
  \cup {Request("POST", Target("/rest/services/createPartyGroup"), NoHeader, b) :
          b \in TenantBodies}

(***************************************************************************)
(* State.                                                                  *)
(***************************************************************************)
VARIABLES
  USERS,        \* the registry, MockOFBizHandler.USERS
  request,      \* the request of the open connection; NoRequest between connections
  response,     \* the responses sent for it: one, or none when the handler raised
  answered201   \* history: the body and the response data of every create-user
                \* request answered 201, in order

vars == <<USERS, request, response, answered201>>

NoRequest == Request("NONE", Target(""), NoHeader, NoLengthBody)

Init ==
  /\ USERS = SeedUsers
  /\ request = NoRequest
  /\ response = <<>>
  /\ answered201 = <<>>

IsCreate(req) ==
  req.method = "POST" /\ urlparse_path(req.target) = "/rest/services/createUser"

\* The server handles req to completion.
Serve(req) ==
  LET out == handle_one_request(USERS, req)
  IN /\ request = NoRequest
     /\ Len(out.USERS) <= Len(SeedUsers) + MaxCreated
     /\ USERS' = out.USERS
     /\ request' = req
     /\ response' = out.sent
     /\ answered201' =
          IF IsCreate(req) /\ out.sent # <<>> /\ out.sent[1].status = 201
          THEN Append(answered201, [body |-> req.body, data |-> out.sent[1].body.data.data])
          ELSE answered201

Routed(req, method, paths) ==
  req.method = method /\ urlparse_path(req.target) \in paths

Options == \E req \in Requests : req.method = "OPTIONS" /\ Serve(req)

Health == \E req \in Requests : Routed(req, "GET", {"/health", "/rest/health"}) /\ Serve(req)

ListUsers == \E req \in Requests : Routed(req, "GET", {"/users", "/rest/users"}) /\ Serve(req)

GetNotFound ==
  \E req \in Requests :
    /\ req.method = "GET"
    /\ urlparse_path(req.target) \notin {"/health", "/rest/health", "/users", "/rest/users"}
    /\ Serve(req)

AuthToken == \E req \in Requests : Routed(req, "POST", {"/rest/auth/token"}) /\ Serve(req)

GetUserInfo ==
  \E req \in Requests : Routed(req, "POST", {"/rest/services/getUserInfo"}) /\ Serve(req)

CreateUser ==
  \E req \in Requests : Routed(req, "POST", {"/rest/services/createUser"}) /\ Serve(req)

CreateTenant ==
  \E req \in Requests :
    Routed(req, "POST", {"/rest/services/createPartyGroup"}) /\ Serve(req)

PostNotFound ==
  \E req \in Requests :
    /\ req.method = "POST"
    /\ urlparse_path(req.target) \notin
         {"/rest/auth/token", "/rest/services/getUserInfo", "/rest/services/createUser",
          "/rest/services/createPartyGroup"}
    /\ Serve(req)

UnsupportedMethod == \E req \in Requests : req.method \notin HandledMethods /\ Serve(req)

\* The connection is closed after its one request (HTTP/1.0) and the server
\* waits for the next one.
Finish ==
  /\ request # NoRequest
  /\ request' = NoRequest
  /\ response' = <<>>
  /\ UNCHANGED <<USERS, answered201>>

Next ==
  \/ Finish
  \/ Options
  \/ Health
  \/ ListUsers
  \/ GetNotFound
  \/ AuthToken
  \/ GetUserInfo
  \/ CreateUser
  \/ CreateTenant
  \/ PostNotFound
  \/ UnsupportedMethod

Spec == Init /\ [][Next]_vars

(***************************************************************************)
(* Properties.                                                             *)
(***************************************************************************)
\* The body is a JSON object that names a userLoginId, and that value.
HasId(req) ==
  /\ req.body.kind = "json"
  /\ req.body.v.t = "dict"
  /\ "userLoginId" \in DOMAIN req.body.v.f

IdOf(req) == req.body.v.f.userLoginId

\* A login id: a non-empty string, or a number other than 0.
IsLoginId(v) == (v.t = "str" /\ Len(v.s) > 0) \/ (v.t = "num" /\ v.n # 0)

IsInfo(req) == Routed(req, "POST", {"/rest/services/getUserInfo"})

IsList(req) == Routed(req, "GET", {"/users", "/rest/users"})

IsToken(req) == Routed(req, "POST", {"/rest/auth/token"})

\* The ids of the create-user requests answered 201 so far.
Answered201Ids == {answered201[i].data.userLoginId : i \in 1..Len(answered201)}

\* C1: a create-user request whose userLoginId is already a key of the
\* registry is answered 409 Conflict and leaves the registry as it was, every
\* record and every field of it.
C1_ConflictLeavesRegistry ==
  [][(/\ request = NoRequest
      /\ IsCreate(request')
      /\ HasId(request')
      /\ IdOf(request') \in Keys(USERS))
     => (/\ Len(response') = 1
         /\ response'[1].status = 409
         /\ response'[1].body.data.error = "Conflict"
         /\ USERS' = USERS)]_vars

\* A create-user request for newuser, created before, has been answered 409.
C1_Witness ==
  /\ IsCreate(request)
  /\ HasId(request)
  /\ IdOf(request) = Str(newuser)
  /\ Len(response) = 1
  /\ response[1].status = 409

\* C2: a create-user request for a login id that is not in the registry is
\* answered 201 and adds exactly one record, keyed by that id, changing no
\* other record; once an id has been answered 201, every later create-user
\* request for it is answered 409 and the registry does not grow.
C2_CreateTwice ==
  [][(/\ request = NoRequest
      /\ IsCreate(request')
      /\ HasId(request')
      /\ IsLoginId(IdOf(request')))
     => LET u == IdOf(request')
        IN /\ Len(response') = 1
           /\ (u \notin Keys(USERS)) =>
                /\ response'[1].status = 201
                /\ Len(USERS') = Len(USERS) + 1
                /\ Cardinality(Keys(USERS')) = Cardinality(Keys(USERS)) + 1
                /\ Keys(USERS') = Keys(USERS) \cup {u}
                /\ SubSeq(USERS', 1, Len(USERS)) = USERS
                /\ USERS'[Len(USERS')].key = u
           /\ (u \in Answered201Ids \/ u \in Keys(USERS)) =>
                /\ response'[1].status = 409
                /\ USERS' = USERS]_vars

\* newuser was created with 201 and a second create-user request for it has
\* been answered 409, the registry holding one record more than the seeds.
C2_Witness ==
  /\ IsCreate(request)
  /\ HasId(request)
  /\ IdOf(request) = Str(newuser)
  /\ Str(newuser) \in Answered201Ids
  /\ Len(response) = 1
  /\ response[1].status = 409
  /\ Len(USERS) = Len(SeedUsers) + 1

NamesSupplied(body) ==
  "firstName" \in DOMAIN body.v.f \/ "lastName" \in DOMAIN body.v.f

\* C3: once create-user has answered 201 for u, a get-user-info request for u
\* is answered 200 with the userLoginId u and the firstName, lastName, email
\* and tenantId of that 201 response; firstName is u and lastName is "User"
\* when the create request supplied no names.
C3_CreatedUserIsFound ==
  (IsInfo(request) /\ HasId(request)) =>
    \A i \in 1..Len(answered201) :
      (answered201[i].data.userLoginId = IdOf(request)) =>
        /\ Len(response) = 1
        /\ response[1].status = 200
        /\ response[1].body.data.data = answered201[i].data
        /\ response[1].body.data.data.userLoginId = IdOf(request)
        /\ ~NamesSupplied(answered201[i].body) =>
             /\ response[1].body.data.data.firstName = IdOf(request)
             /\ response[1].body.data.data.lastName = Str(<<"U", "s", "e", "r">>)

\* newuser was created without names, another user was created after it, and
\* get-user-info for newuser has been answered.
C3_Witness ==
  /\ IsInfo(request)
  /\ HasId(request)
  /\ IdOf(request) = Str(newuser)
  /\ Len(answered201) = 2
  /\ answered201[1].data.userLoginId = Str(newuser)
  /\ ~NamesSupplied(answered201[1].body)
  /\ Len(response) = 1

\* C4: list-users returns total = 2 + the number of create-user requests
\* answered 201 so far = the size of the registry = the length of users, and
\* no returned record has a password field.
C4_ListTotal ==
  IsList(request) =>
    /\ Len(response) = 1
    /\ response[1].status = 200
    /\ LET d == response[1].body.data
       IN /\ d.total = 2 + Len(answered201)
          /\ d.total = Len(USERS)
          /\ d.total = Cardinality(Keys(USERS))
          /\ d.total = Len(d.users)
          /\ \A i \in 1..Len(d.users) : "password" \notin DOMAIN d.users[i]

\* list-users has been answered after two users were created.
C4_Witness ==
  /\ IsList(request)
  /\ Len(answered201) = 2
  /\ Len(response) = 1
  /\ response[1].body.data.total = 4

(***************************************************************************)
(* Token issuance as a client sees it.                                     *)
(***************************************************************************)
\* The credentials the clients of the model send, each with its header.
Creds ==
  {[u |-> u, p |-> p, h |-> BasicHeader(u, p)] : u \in CredUsers, p \in CredPasswords}
  \cup {[u |-> demo, p |-> demo, h |-> BasicHeader(demo, demo)]}

\* The user u is in the registry with the password p, and is enabled.
Matches(users, u, p) ==
  /\ Contains(users, Str(u))
  /\ Lookup(users, Str(u)).password = Str(p)
  /\ Lookup(users, Str(u)).enabled

\* json.loads of a string literal read from position i of text (after its
\* opening quote): the string and the position after its closing quote.
RECURSIVE ParseString(_, _, _)
ParseString(text, i, acc) ==
  IF i > Len(text) THEN Raise
  ELSE IF text[i] = "\"" THEN Ok([s |-> acc, next |-> i + 1])
  ELSE IF text[i] = "\\" THEN
    (IF i + 1 <= Len(text) /\ text[i + 1] \in {"\"", "\\"}
     THEN ParseString(text, i + 2, Append(acc, text[i + 1]))
     ELSE Raise)
  ELSE ParseString(text, i + 1, Append(acc, text[i]))

TokenHead ==
  <<"{", "\"", "u", "s", "e", "r", "L", "o", "g", "i", "n", "I", "d", "\"", ":", " ", "\"">>

TokenTail ==
  <<",", " ", "\"", "e", "x", "p", "\"", ":", " ",
    "9", "9", "9", "9", "9", "9", "9", "9", "9", "9", "}">>

\* What a client recovers from an access token:
\* json.loads(base64.b64decode(token).decode('utf-8'))['userLoginId'].
DecodeToken(token) ==
  LET raw == b64decode(token)
      text == Utf8Decode(raw.v)
      parsed == ParseString(text.v, Len(TokenHead) + 1, <<>>)
  IN IF ~raw.ok THEN Raise
     ELSE IF ~text.ok THEN Raise
     ELSE IF Len(text.v) < Len(TokenHead) \/ SubSeq(text.v, 1, Len(TokenHead)) # TokenHead
       THEN Raise
     ELSE IF ~parsed.ok THEN Raise
     ELSE IF SubSeq(text.v, parsed.v.next, Len(text.v)) # TokenTail THEN Raise
     ELSE Ok(parsed.v.s)

\* The body of a 200 token response for the user u.
IsTokenBody(data, u) ==
  /\ DOMAIN data = {"access_token", "token_type", "expires_in"}
  /\ data.token_type = "Bearer"
  /\ data.expires_in = 3600
  /\ data.access_token.t = "str"
  /\ Len(data.access_token.s) > 0
  /\ DecodeToken(data.access_token.s) = Ok(u)

\* C5 as stated: a token request carrying Basic credentials (u, p) returns 200
\* exactly when u is a key of the registry with the stored password p and is
\* enabled, and the token then decodes to u.
C5_Original ==
  IsToken(request) =>
    \A c \in Creds :
      (request.auth = c.h) =>
        /\ Len(response) = 1
        /\ (response[1].status = 200) <=> Matches(USERS, c.u, c.p)
        /\ (response[1].status = 200) => IsTokenBody(response[1].body.data, c.u)

\* C5 (amended): a token request carrying Basic credentials (u, p), u without
\* a colon, returns 200 exactly when p is not empty and u is a key of the
\* registry with the stored password p and is enabled; the body is then
\* {access_token, token_type: "Bearer", expires_in: 3600} with a non-empty
\* access_token that decodes to u.
C5_TokenIffMatch ==
  IsToken(request) =>
    \A c \in Creds :
      (request.auth = c.h /\ ~HasColon(c.u)) =>
        /\ Len(response) = 1
        /\ (response[1].status = 200) <=> (c.p # <<>> /\ Matches(USERS, c.u, c.p))
        /\ (response[1].status = 200) => IsTokenBody(response[1].body.data, c.u)

\* A token has been issued to a created user whose id json.dumps escapes.
C5_Witness ==
  /\ IsToken(request)
  /\ request.auth = BasicHeader(quoted, pw)
  /\ Len(response) = 1
  /\ response[1].status = 200

\* The header decodes as base64(username:password): the text before the first
\* colon and the text after it.
Decodable(h) ==
  /\ Len(h) >= 6
  /\ SubSeq(h, 1, 6) = BasicPrefix
  /\ b64decode(SubSeq(h, 7, Len(h))).ok
  /\ Utf8Decode(b64decode(SubSeq(h, 7, Len(h))).v).ok
  /\ HasColon(Utf8Decode(b64decode(SubSeq(h, 7, Len(h))).v).v)

DecodedText(h) == Utf8Decode(b64decode(SubSeq(h, 7, Len(h))).v).v

DecodedUser(h) == SubSeq(DecodedText(h), 1, FirstColon(DecodedText(h)) - 1)

DecodedPassword(h) ==
  SubSeq(DecodedText(h), FirstColon(DecodedText(h)) + 1, Len(DecodedText(h)))

IsUnauthorized(resp) ==
  /\ resp.status = 401
  /\ resp.body.data.error = "Unauthorized"
  /\ resp.body.data.message = <<"Basic authentication required">>

IsInvalidCredentials(resp) ==
  /\ resp.status = 401
  /\ resp.body.data.error = "Invalid credentials"
  /\ resp.body.data.message = <<"Username or password incorrect">>

\* C6 as stated: 401 "Basic authentication required" is given exactly when the
\* header is missing or does not decode as base64(username:password); every
\* header that decodes to a pair that matches no enabled user gets 401
\* "Invalid credentials".
C6_Original ==
  IsToken(request) =>
    /\ Len(response) = 1
    /\ IsUnauthorized(response[1]) <=> ~Decodable(request.auth)
    /\ (/\ Decodable(request.auth)
        /\ ~Matches(USERS, DecodedUser(request.auth), DecodedPassword(request.auth)))
       => IsInvalidCredentials(response[1])

\* C6 (amended): 401 "Basic authentication required" is given exactly when the
\* header is missing, does not decode as base64(username:password), or decodes
\* to an empty username or an empty password; every header that decodes to a
\* non-empty username and a non-empty password that match no enabled user gets
\* 401 "Invalid credentials".
C6_UnauthorizedIffAbsent ==
  IsToken(request) =>
    /\ Len(response) = 1
    /\ IsUnauthorized(response[1]) <=>
         (\/ ~Decodable(request.auth)
          \/ DecodedUser(request.auth) = <<>>
          \/ DecodedPassword(request.auth) = <<>>)
    /\ (/\ Decodable(request.auth)
        /\ DecodedUser(request.auth) # <<>>
        /\ DecodedPassword(request.auth) # <<>>
        /\ ~Matches(USERS, DecodedUser(request.auth), DecodedPassword(request.auth)))
       => IsInvalidCredentials(response[1])

\* A header that decodes to admin and an empty password has been answered.
C6_Witness ==
  /\ IsToken(request)
  /\ request.auth = BasicHeader(admin, <<>>)
  /\ Len(response) = 1
  /\ IsUnauthorized(response[1])

\* The token request carries a wrong password c.p for a user c.u of the registry.
WrongPassword(c) ==
  /\ request.auth = c.h
  /\ Contains(USERS, Str(c.u))
  /\ Lookup(USERS, Str(c.u)).password # Str(c.p)

\* The login ids of the model's clients that are not in the registry.
UnknownUsers == {v \in CredUsers : v # <<>> /\ ~Contains(USERS, Str(v))}

\* C7 as stated: the response to a wrong password p for a user of the registry
\* is the response to the same p for a login id that is not in the registry,
\* and both are 401 "Invalid credentials".
C7_Original ==
  IsToken(request) =>
    \A c \in Creds :
      WrongPassword(c) =>
        \A v \in UnknownUsers :
          /\ response = handle_auth_token(USERS, BasicHeader(v, c.p)).sent
          /\ Len(response) = 1
          /\ response[1].status = 401
          /\ response[1].body.data.error = "Invalid credentials"

\* C7 (amended): for login ids without a colon, the response to a wrong
\* password p for a user of the registry is the response to the same p for a
\* login id that is not in the registry; both are 401, "Invalid credentials"
\* when p is not empty and "Unauthorized" when p is empty.
C7_NoDisclosure ==
  IsToken(request) =>
    \A c \in Creds :
      (WrongPassword(c) /\ ~HasColon(c.u)) =>
        \A v \in {w \in UnknownUsers : ~HasColon(w)} :
          /\ response = handle_auth_token(USERS, BasicHeader(v, c.p)).sent
          /\ Len(response) = 1
          /\ response[1].status = 401
          /\ response[1].body.data.error =
               IF c.p = <<>> THEN "Unauthorized" ELSE "Invalid credentials"

\* A wrong, non-empty password for a created user has been answered while
\* other login ids are unknown.
C7_Witness ==
  /\ IsToken(request)
  /\ request.auth = BasicHeader(newuser, wrong)
  /\ Contains(USERS, Str(newuser))
  /\ UnknownUsers # {}
  /\ Len(response) = 1
  /\ IsInvalidCredentials(response[1])

(***************************************************************************)
(* Routing and response format.                                            *)
(***************************************************************************)
\* The route table: the GET and POST routes, and OPTIONS on any path.
InRouteTable(req) ==
  \/ Routed(req, "GET", {"/health", "/rest/health", "/users", "/rest/users"})
  \/ Routed(req, "POST", {"/rest/auth/token", "/rest/services/getUserInfo",
                          "/rest/services/createUser", "/rest/services/createPartyGroup"})
  \/ req.method = "OPTIONS"

IsJsonNotFound(resp) ==
  /\ resp.status = 404
  /\ resp.body.kind = "json"
  /\ "error" \in DOMAIN resp.body.data

\* C8 as stated: every (method, path) that is not in the route table, a known
\* path with the wrong method and the methods PUT and DELETE included, is
\* answered 404 with a body that has an error field.
C8_Original ==
  (request # NoRequest /\ ~InRouteTable(request)) =>
    /\ Len(response) = 1
    /\ IsJsonNotFound(response[1])

\* C8 (amended): a GET or POST request whose path is not routed for its method
\* is answered 404 with a JSON body that has an error field; a request with
\* any other method than GET, POST and OPTIONS is answered 501 with the
\* library's HTML error page, which has no error field.
C8_UnknownRoute ==
  (request # NoRequest /\ ~InRouteTable(request)) =>
    /\ Len(response) = 1
    /\ IF request.method \in {"GET", "POST"}
       THEN IsJsonNotFound(response[1])
       ELSE response[1].status = 501 /\ response[1].body.kind = "html"

\* POST /health, a known path with the wrong method, has been answered.
C8_Witness ==
  /\ request.method = "POST"
  /\ request.target = Target("/health")
  /\ Len(response) = 1
  /\ response[1].status = 404

\* A JSON response with Content-Type application/json and the CORS headers.
IsJsonWithCors(resp) ==
  /\ resp.body.kind = "json"
  /\ DOMAIN resp.headers = {"ContentType", "AccessControlAllowOrigin",
                            "AccessControlAllowMethods", "AccessControlAllowHeaders"}
  /\ resp.headers.ContentType = "application/json"
  /\ resp.headers.AccessControlAllowOrigin = "*"
  /\ resp.headers.AccessControlAllowMethods = "GET, POST, OPTIONS"
  /\ resp.headers.AccessControlAllowHeaders = "Content-Type, Authorization"

OptionsAnswered ==
  request.method = "OPTIONS" =>
    /\ Len(response) = 1
    /\ response[1].status = 200
    /\ DOMAIN response[1].body.data = {}

\* C9 as stated: every response, for every method, path and status, is JSON
\* with Content-Type application/json and the CORS headers; OPTIONS on any
\* path gets 200 with an empty JSON object.
C9_Original ==
  /\ \A i \in 1..Len(response) : IsJsonWithCors(response[i])
  /\ OptionsAnswered

\* C9 (amended): every response to a GET, POST or OPTIONS request (those sent
\* by the handler's do_GET, do_POST and do_OPTIONS), for every path and
\* status, is JSON with Content-Type application/json and the CORS headers;
\* OPTIONS on any path gets 200 with an empty JSON object.
C9_JsonWithCors ==
  /\ request.method \in HandledMethods =>
       \A i \in 1..Len(response) : IsJsonWithCors(response[i])
  /\ OptionsAnswered

\* An error response, the 404 of an unknown GET path, has been sent.
C9_Witness ==
  /\ request.method = "GET"
  /\ request.target = Target("/rest/services/deleteUser")
  /\ Len(response) = 1
  /\ response[1].status = 404

(***************************************************************************)
(* User lookup.                                                            *)
(***************************************************************************)
\* The body names a userLoginId that is not empty.
HasNonEmptyId(req) == HasId(req) /\ Truthy(IdOf(req))

\* The registry has an enabled record under the key id.
EnabledRecord(users, id) == Contains(users, id) /\ Lookup(users, id).enabled

\* C10: get-user-info has exactly three outcomes: 400 "userLoginId parameter
\* required" when userLoginId is absent or empty; 404 "User not found" when it
\* is present with no matching enabled record; 200 with exactly the
\* userLoginId, firstName, lastName, email and tenantId of the matching
\* enabled record.
C10_ThreeOutcomes ==
  IsInfo(request) =>
    /\ Len(response) = 1
    /\ ~HasNonEmptyId(request) =>
         /\ response[1].status = 400
         /\ response[1].body.data.message = <<"userLoginId parameter required">>
    /\ (HasNonEmptyId(request) /\ ~EnabledRecord(USERS, IdOf(request))) =>
         /\ response[1].status = 404
         /\ response[1].body.data.error = "User not found"
    /\ (HasNonEmptyId(request) /\ EnabledRecord(USERS, IdOf(request))) =>
         /\ response[1].status = 200
         /\ DOMAIN response[1].body.data.data =
              {"userLoginId", "firstName", "lastName", "email", "tenantId"}
         /\ \A f \in DOMAIN response[1].body.data.data :
              response[1].body.data.data[f] = Lookup(USERS, IdOf(request))[f]

(***************************************************************************)
(* The registry over the lifetime of the process.                          *)
(***************************************************************************)
\* C11: a login id that is in the registry stays there with its record
\* unchanged: no step removes a key or alters a field of an existing record,
\* and the seed users admin and demo are present with their seeded fields in
\* every reachable state.
C11_RecordsStay ==
  /\ [](\A i \in 1..Len(SeedUsers) :
          /\ Contains(USERS, SeedUsers[i].key)
          /\ Lookup(USERS, SeedUsers[i].key) = SeedUsers[i].value)
  /\ [][\A k \in Keys(USERS) :
          Contains(USERS', k) /\ Lookup(USERS', k) = Lookup(USERS, k)]_vars

\* A second user has been created while newuser, created before, is in the
\* registry.
C11_Witness ==
  /\ IsCreate(request)
  /\ HasId(request)
  /\ IdOf(request) # Str(newuser)
  /\ Len(response) = 1
  /\ response[1].status = 201
  /\ Contains(USERS, Str(newuser))
  /\ Len(USERS) = Len(SeedUsers) + 2

\* C12: only a create-user request answered 201 changes the registry: every
\* step that changes USERS is the handling of a create-user request that was
\* answered 201 (so health, list-users, token issuance, get-user-info,
\* create-tenant, OPTIONS, unknown routes and create-user requests not
\* answered 201 leave it unchanged).
C12_OnlyCreated201Changes ==
  [][USERS' # USERS =>
       (/\ IsCreate(request')
        /\ Len(response') = 1
        /\ response'[1].status = 201)]_vars

(***************************************************************************)
(* Racing requests.  HTTPServer handles one connection at a time:          *)
(* connections that arrive together wait in the listen queue and are       *)
(* served one after the other, in the order the actions of Next choose.    *)
(***************************************************************************)
\* C13: no update is lost when create-user requests race: for each login id
\* that is not a seed user, exactly one of the requests naming it is answered
\* 201 and every other one 409, the stored record is the one of the 201
\* request, and every id answered 201 is in the registry.
C13_RacingCreates ==
  /\ \A i, j \in 1..Len(answered201) :
       answered201[i].data.userLoginId = answered201[j].data.userLoginId => i = j
  /\ \A i \in 1..Len(answered201) :
       /\ Contains(USERS, answered201[i].data.userLoginId)
       /\ created_data(Lookup(USERS, answered201[i].data.userLoginId))
            = answered201[i].data
  /\ (/\ IsCreate(request)
      /\ HasId(request)
      /\ IsLoginId(IdOf(request))
      /\ ~Contains(SeedUsers, IdOf(request)))
     => (/\ Len(response) = 1
         /\ response[1].status \in {201, 409}
         /\ IdOf(request) \in Answered201Ids)

(***************************************************************************)
(* Bodies.                                                                 *)
(***************************************************************************)
IsTenant(req) == Routed(req, "POST", {"/rest/services/createPartyGroup"})

\* The body of req does not parse as JSON, or req has no Content-Length.
Unparseable(req) == req.body.kind \in {"garbage", "nolength"}

\* The one response to the request is 400 Bad Request with this message.
BadRequest(sent, message) ==
  /\ Len(sent) = 1
  /\ sent[1].status = 400
  /\ sent[1].body.data = [error |-> "Bad Request", message |-> <<message>>]

\* C14: a body that is not parseable JSON, or comes without a usable
\* Content-Length, is treated as an empty object: get-user-info answers 400
\* "userLoginId parameter required", create-user 400 "userLoginId is
\* required" and create-tenant 400 "partyId is required", and the registry
\* is unchanged.
C14_UnparseableIsEmpty ==
  [][(request = NoRequest /\ Unparseable(request'))
     => (/\ IsInfo(request') => BadRequest(response', "userLoginId parameter required")
         /\ IsCreate(request') => BadRequest(response', "userLoginId is required")
         /\ IsTenant(request') => BadRequest(response', "partyId is required")
         /\ USERS' = USERS)]_vars

\* Create-tenant has answered a body that does not parse.
C14_Witness ==
  /\ request.body = GarbageBody
  /\ IsTenant(request)
  /\ BadRequest(response, "partyId is required")

(***************************************************************************)
(* Defaults of create-user.                                                *)
(***************************************************************************)
Supplied(body, field) == field \in DOMAIN body.v.f

\* The value of field in the body when it was supplied, default otherwise.
SuppliedOr(body, field, default) ==
  IF Supplied(body, field) THEN body.v.f[field] ELSE default

\* The value of field in the body when it was supplied and is not empty
\* (not null, "", 0 or []), default otherwise.
NonEmptyOr(body, field, default) ==
  IF Supplied(body, field) /\ Truthy(body.v.f[field]) THEN body.v.f[field] ELSE default

ExampleEmail(id) ==
  Str(PyStr(id) \o <<"@", "e", "x", "a", "m", "p", "l", "e", ".", "c", "o", "m">>)

\* The record stored for the i-th create-user request answered 201.
StoredFor(i) == Lookup(USERS, answered201[i].data.userLoginId)

\* What C15 says of every stored record: enabled, marked as created, with a
\* timestamp, and echoed in the data of the 201 response.
MarkedAndEchoed(i) ==
  /\ StoredFor(i).userLoginId = IdOf(answered201[i])
  /\ StoredFor(i).enabled = TRUE
  /\ StoredFor(i).createdByKeycloak = TRUE
  /\ StoredFor(i).createdAt.t = "str"
  /\ Len(StoredFor(i).createdAt.s) > 0
  /\ answered201[i].data = created_data(StoredFor(i))

\* C15 as stated: every optional field holds the supplied value when it was
\* supplied and the default when it was not.
C15_Original ==
  \A i \in 1..Len(answered201) :
    LET body == answered201[i].body
        id == IdOf(answered201[i])
    IN /\ StoredFor(i).firstName = SuppliedOr(body, "firstName", id)
       /\ StoredFor(i).lastName = SuppliedOr(body, "lastName", Str(<<"U", "s", "e", "r">>))
       /\ StoredFor(i).email = SuppliedOr(body, "emailAddress", ExampleEmail(id))
       /\ StoredFor(i).password = SuppliedOr(body, "userPassword", Str(defaultPassword123))
       /\ StoredFor(i).tenantId = SuppliedOr(body, "tenantId", Str(<<"d", "e", "f", "a", "u", "l", "t">>))
       /\ MarkedAndEchoed(i)

\* C15, amended: firstName, lastName and email hold the supplied value when
\* one was supplied and is not empty, and the default (the login id, "User",
\* {loginId}@example.com) otherwise; password and tenantId hold the supplied
\* value whenever the field was supplied, even null or empty, and the default
\* (the placeholder, "default") when it was not; the record is enabled,
\* marked and stamped, and the response data echoes it.
C15_Defaults ==
  \A i \in 1..Len(answered201) :
    LET body == answered201[i].body
        id == IdOf(answered201[i])
    IN /\ StoredFor(i).firstName = NonEmptyOr(body, "firstName", id)
       /\ StoredFor(i).lastName = NonEmptyOr(body, "lastName", Str(<<"U", "s", "e", "r">>))
       /\ StoredFor(i).email = NonEmptyOr(body, "emailAddress", ExampleEmail(id))
       /\ StoredFor(i).password = SuppliedOr(body, "userPassword", Str(defaultPassword123))
       /\ StoredFor(i).tenantId = SuppliedOr(body, "tenantId", Str(<<"d", "e", "f", "a", "u", "l", "t">>))
       /\ MarkedAndEchoed(i)

\* One user was created with every field supplied and one with the fields
\* supplied empty.
C15_Witness ==
  \E i, j \in 1..Len(answered201) :
    /\ answered201[i].body.v = AllFields(Str(quoted))
    /\ answered201[j].body.v = EmptyFields(Str(newuser))

(***************************************************************************)
(* Create-tenant.                                                          *)
(***************************************************************************)
\* The body of req is a JSON object with this field.
HasField(req, field) ==
  /\ req.body.kind = "json"
  /\ req.body.v.t = "dict"
  /\ field \in DOMAIN req.body.v.f

Organization(partyId) ==
  Str(PyStr(partyId) \o <<" ", "O", "r", "g", "a", "n", "i", "z", "a", "t", "i", "o", "n">>)

\* C16: create-tenant is a function of the request body alone, the same in
\* every registry state: 400 "partyId is required" when the body has no
\* partyId; otherwise 201 with data partyId as given, groupName as given, or
\* "{partyId} Organization" when the body has no groupName, and partyTypeId
\* "PARTY_GROUP".
C16_TenantOfBody ==
  IsTenant(request) =>
    IF ~HasField(request, "partyId")
    THEN BadRequest(response, "partyId is required")
    ELSE /\ Len(response) = 1
         /\ response[1].status = 201
         /\ response[1].body.data.data =
              [partyId |-> request.body.v.f.partyId,
               groupName |-> IF HasField(request, "groupName")
                             THEN request.body.v.f.groupName
                             ELSE Organization(request.body.v.f.partyId),
               partyTypeId |-> "PARTY_GROUP"]

(***************************************************************************)
(* Create, then authenticate.                                              *)
(***************************************************************************)
\* The password of the i-th create-user request answered 201: its
\* userPassword, or the placeholder when it has none.
PasswordOf(i) == SuppliedOr(answered201[i].body, "userPassword", Str(defaultPassword123))

\* A client can put text into a header: str.encode('utf-8') accepts it.
Utf8Encodable(text) == \A k \in 1..Len(text) : text[k] # Surrogate

\* The token request carries the Basic credentials of the i-th created user.
CarriesCredentialsOf(i) ==
  /\ IsToken(request)
  /\ PasswordOf(i).t = "str"
  /\ Utf8Encodable(PasswordOf(i).s)
  /\ request.auth = BasicHeader(PyStr(answered201[i].data.userLoginId), PasswordOf(i).s)

TokenIssued ==
  /\ Len(response) = 1
  /\ response[1].status = 200

\* C17 as stated: after a create-user request answered 201 for u, a token
\* request with the Basic credentials (u, p) returns 200, p being the
\* userPassword of the create request or the placeholder.
C17_Original ==
  \A i \in 1..Len(answered201) : CarriesCredentialsOf(i) => TokenIssued

\* C17 (amended): after a create-user request answered 201 for u, a token
\* request with the Basic credentials (u, p) returns 200 when u is a string
\* without a colon and p, the userPassword of the create request or the
\* placeholder, is a string that is not empty.
C17_CreatedCanAuthenticate ==
  \A i \in 1..Len(answered201) :
    (/\ CarriesCredentialsOf(i)
     /\ answered201[i].data.userLoginId.t = "str"
     /\ ~HasColon(answered201[i].data.userLoginId.s)
     /\ PasswordOf(i).s # <<>>)
    => TokenIssued

\* newuser was created with a password that holds a colon and has been issued
\* a token for it.
C17_Witness ==
  /\ \E i \in 1..Len(answered201) :
       /\ CarriesCredentialsOf(i)
       /\ answered201[i].data.userLoginId = Str(newuser)
       /\ PasswordOf(i) = Str(colonpw)
  /\ TokenIssued

(***************************************************************************)
(* Every request is answered.                                              *)
(***************************************************************************)
\* C18: every POST to get-user-info, create-user or create-tenant, whatever
\* its body and whatever the JSON type of userLoginId or partyId, is answered
\* with exactly one response, whose status is 200, 201, 400, 404 or 409.
C18_EveryRequestAnswered ==
  (IsInfo(request) \/ IsCreate(request) \/ IsTenant(request)) =>
    /\ Len(response) = 1
    /\ response[1].status \in {200, 201, 400, 404, 409}

(***************************************************************************)
(* Keys and the enabled flag.                                              *)
(***************************************************************************)
\* C19: every record of the registry is stored under a key equal to its own
\* userLoginId and is enabled; so a get-user-info request answered 404 names
\* an id that is not a key of the registry, and token issuance answers
\* "Invalid credentials" only to a username that is not a key or to a
\* password that is not the stored one.
C19_KeyedAndEnabled ==
  /\ \A i \in 1..Len(USERS) :
       /\ USERS[i].key = USERS[i].value.userLoginId
       /\ USERS[i].value.enabled = TRUE
  /\ (IsInfo(request) /\ Len(response) = 1 /\ response[1].status = 404)
       => ~Contains(USERS, IdOf(request))
  /\ (IsToken(request) /\ Len(response) = 1 /\ IsInvalidCredentials(response[1]))
       => \/ ~Contains(USERS, Str(DecodedUser(request.auth)))
          \/ Lookup(USERS, Str(DecodedUser(request.auth))).password
               # Str(DecodedPassword(request.auth))

\* With two created users in the registry, get-user-info has answered 404
\* for an id that is not a key.
C19_Witness ==
  /\ Len(USERS) = Len(SeedUsers) + 2
  /\ IsInfo(request)
  /\ HasId(request)
  /\ IdOf(request) = Str(ghost)
  /\ Len(response) = 1
  /\ response[1].status = 404

====
